---- MODULE Spec2Model ----
(***************************************************************************)
(* Flight schedule parser and query tool (src/flight_parser.py).           *)
(*                                                                         *)
(* Text is a sequence of one-character strings, so that splitting,         *)
(* stripping, datetime parsing and number parsing are computed on the      *)
(* characters, as the program computes them.                               *)
(***************************************************************************)
EXTENDS Integers, Sequences, FiniteSets, TLC

VARIABLES
    pc,             \* position of the running operation
    args,           \* the parsed command line (main)
    vin,            \* input of one validate_and_build_flight call
    vout,           \* its result
    lineno,         \* parse_csv_file: number of the line read last
    consumed,       \* parse_csv_file: the lines read so far from the open source
    nfiles,         \* main: CSV sources still to be parsed
    flights,        \* valid_flights / flights
    errors,         \* error_lines / errors
    queries,        \* run_queries_and_save: the queries still to be run
    responses,      \* run_queries_and_save: responses
    db_file,        \* content of the JSON database file written by save_json_db
    errors_file,    \* content of errors.txt
    response_file   \* content of the response file

vars == <<pc, args, vin, vout, lineno, consumed, nfiles, flights, errors,
          queries, responses, db_file, errors_file, response_file>>

\* Python's None; a file this run has not written, and one it has.
None == [none |-> TRUE]
Untouched == [written |-> FALSE]
Written(content) == [written |-> TRUE, content |-> content]

(***************************************************************************)
(* Characters and the str methods the program calls.                       *)
(***************************************************************************)
Digits == {"0","1","2","3","4","5","6","7","8","9"}
NonZeroDigits == Digits \ {"0"}
UpperSeq == <<"A","B","C","D","E","F","G","H","I","J","K","L","M",
              "N","O","P","Q","R","S","T","U","V","W","X","Y","Z">>
LowerSeq == <<"a","b","c","d","e","f","g","h","i","j","k","l","m",
              "n","o","p","q","r","s","t","u","v","w","x","y","z">>
Upper == {UpperSeq[i] : i \in DOMAIN UpperSeq}
Lower == {LowerSeq[i] : i \in DOMAIN LowerSeq}
Whitespace == {" ", "\t", "\r", "\n"}

SetMin(S) == CHOOSE x \in S : \A y \in S : x <= y
SetMax(S) == CHOOSE x \in S : \A y \in S : x >= y

DigitVal(c) ==
    CASE c = "0" -> 0 [] c = "1" -> 1 [] c = "2" -> 2 [] c = "3" -> 3
      [] c = "4" -> 4 [] c = "5" -> 5 [] c = "6" -> 6 [] c = "7" -> 7
      [] c = "8" -> 8 [] c = "9" -> 9

RECURSIVE ToNat(_)
ToNat(ds) ==
    IF ds = <<>> THEN 0
    ELSE 10 * ToNat(SubSeq(ds, 1, Len(ds) - 1)) + DigitVal(ds[Len(ds)])

AllIn(s, S) == \A i \in 1..Len(s) : s[i] \in S

\* str.isalnum / str.isalpha / str.isupper on the characters modelled
isalnum(s) == Len(s) > 0 /\ AllIn(s, Digits \cup Upper \cup Lower)
isalpha(s) == Len(s) > 0 /\ AllIn(s, Upper \cup Lower)
isupper(s) == (\E i \in 1..Len(s) : s[i] \in Upper) /\ (\A i \in 1..Len(s) : s[i] \notin Lower)

\* str.lower
lower(s) ==
    [i \in 1..Len(s) |->
        IF s[i] \in Upper
        THEN LowerSeq[CHOOSE k \in DOMAIN UpperSeq : UpperSeq[k] = s[i]]
        ELSE s[i]]

\* str.strip
strip(s) ==
    LET keep == {i \in 1..Len(s) : s[i] \notin Whitespace}
    IN  IF keep = {} THEN <<>> ELSE SubSeq(s, SetMin(keep), SetMax(keep))

\* str.startswith
startswith(s, p) == Len(s) >= Len(p) /\ SubSeq(s, 1, Len(p)) = p

\* str.split(sep) for a one-character separator
RECURSIVE split(_, _)
split(s, sep) ==
    LET at == {i \in 1..Len(s) : s[i] = sep}
    IN  IF at = {} THEN <<s>>
        ELSE <<SubSeq(s, 1, SetMin(at) - 1)>>
                 \o split(SubSeq(s, SetMin(at) + 1, Len(s)), sep)

\* sep.join(parts)
RECURSIVE join(_, _)
join(parts, sep) ==
    IF parts = <<>> THEN <<>>
    ELSE IF Len(parts) = 1 THEN parts[1]
    ELSE parts[1] \o <<sep>> \o join(Tail(parts), sep)

(***************************************************************************)
(* datetime.strptime(value, "%Y-%m-%d %H:%M")                              *)
(*                                                                         *)
(* The directives are matched as the library's patterns match them:        *)
(*   %Y  \d\d\d\d                                                          *)
(*   %m  1[0-2] | 0[1-9] | [1-9]                                           *)
(*   %d  3[01] | [12]\d | 0[1-9] | [1-9] | " "[1-9]                        *)
(*   %H  2[0-3] | [0-1]\d | \d                                             *)
(*   %M  [0-5]\d | \d                                                      *)
(* a blank of the format matches one or more whitespace characters, the    *)
(* whole text must be consumed, and the date must exist.                   *)
(***************************************************************************)
MatchY(t) == Len(t) = 4 /\ AllIn(t, Digits)
Match_m(t) ==
    \/ Len(t) = 2 /\ t[1] = "1" /\ t[2] \in {"0","1","2"}
    \/ Len(t) = 2 /\ t[1] = "0" /\ t[2] \in NonZeroDigits
    \/ Len(t) = 1 /\ t[1] \in NonZeroDigits
Match_d(t) ==
    \/ Len(t) = 2 /\ t[1] = "3" /\ t[2] \in {"0","1"}
    \/ Len(t) = 2 /\ t[1] \in {"1","2"} /\ t[2] \in Digits
    \/ Len(t) = 2 /\ t[1] = "0" /\ t[2] \in NonZeroDigits
    \/ Len(t) = 1 /\ t[1] \in NonZeroDigits
    \/ Len(t) = 2 /\ t[1] = " " /\ t[2] \in NonZeroDigits
MatchH(t) ==
    \/ Len(t) = 2 /\ t[1] = "2" /\ t[2] \in {"0","1","2","3"}
    \/ Len(t) = 2 /\ t[1] \in {"0","1"} /\ t[2] \in Digits
    \/ Len(t) = 1 /\ t[1] \in Digits
MatchM(t) ==
    \/ Len(t) = 2 /\ t[1] \in {"0","1","2","3","4","5"} /\ t[2] \in Digits
    \/ Len(t) = 1 /\ t[1] \in Digits

IsLeap(y) == (y % 4 = 0 /\ y % 100 # 0) \/ y % 400 = 0
DaysInMonth(y, m) ==
    IF m = 2 THEN (IF IsLeap(y) THEN 29 ELSE 28)
    ELSE IF m \in {4, 6, 9, 11} THEN 30 ELSE 31

\* The ways the text splits into the five directives and their separators:
\* the lengths of %m, %d, %H and %M; the whitespace takes what is left.
WsLen(s, c) == Len(s) - (4 + 1 + c.lm + 1 + c.ld + c.lh + 1 + c.lM)
CutMatches(s, c, lw) ==
    /\ lw >= 1
    /\ MatchY(SubSeq(s, 1, 4))
    /\ s[5] = "-"
    /\ Match_m(SubSeq(s, 6, 5 + c.lm))
    /\ s[6 + c.lm] = "-"
    /\ Match_d(SubSeq(s, 7 + c.lm, 6 + c.lm + c.ld))
    /\ AllIn(SubSeq(s, 7 + c.lm + c.ld, 6 + c.lm + c.ld + lw), Whitespace)
    /\ MatchH(SubSeq(s, 7 + c.lm + c.ld + lw, 6 + c.lm + c.ld + lw + c.lh))
    /\ s[7 + c.lm + c.ld + lw + c.lh] = ":"
    /\ MatchM(SubSeq(s, 8 + c.lm + c.ld + lw + c.lh, Len(s)))
DateCuts(s) ==
    {c \in [lm : 1..2, ld : 1..2, lh : 1..2, lM : 1..2] : CutMatches(s, c, WsLen(s, c))}

\* datetime(Y, m, d, H, M), or None where the date does not exist
make_datetime(Y, m, d, H, M) ==
    IF Y < 1 \/ d > DaysInMonth(Y, m) THEN None
    ELSE [Y |-> Y, m |-> m, d |-> d, H |-> H, M |-> M]
datetime_at(s, c, lw) ==
    make_datetime(ToNat(SubSeq(s, 1, 4)),
                  ToNat(SubSeq(s, 6, 5 + c.lm)),
                  ToNat(strip(SubSeq(s, 7 + c.lm, 6 + c.lm + c.ld))),
                  ToNat(SubSeq(s, 7 + c.lm + c.ld + lw, 6 + c.lm + c.ld + lw + c.lh)),
                  ToNat(SubSeq(s, 8 + c.lm + c.ld + lw + c.lh, Len(s))))
datetime_of_cuts(s, cuts) ==
    IF cuts = {} THEN None
    ELSE datetime_at(s, CHOOSE x \in cuts : TRUE, WsLen(s, CHOOSE x \in cuts : TRUE))

\* The datetime, or None where strptime raises ValueError.
strptime(s) == datetime_of_cuts(s, DateCuts(s))

\* datetime comparison: a < b
DtLess(a, b) ==
    \/ a.Y < b.Y
    \/ a.Y = b.Y /\ a.m < b.m
    \/ a.Y = b.Y /\ a.m = b.m /\ a.d < b.d
    \/ a.Y = b.Y /\ a.m = b.m /\ a.d = b.d /\ a.H < b.H
    \/ a.Y = b.Y /\ a.m = b.m /\ a.d = b.d /\ a.H = b.H /\ a.M < b.M
DtLessEq(a, b) == a = b \/ DtLess(a, b)

(***************************************************************************)
(* float(text): an optional sign, then digits with an optional fraction,   *)
(* or nan / inf / infinity in any case.  A number is kept exactly, as      *)
(* n / d; nan and the infinities are values of their own.  (Exponents and  *)
(* digit-group underscores are not among the texts enumerated below.)      *)
(***************************************************************************)
RECURSIVE Pow10(_)
Pow10(k) == IF k = 0 THEN 1 ELSE 10 * Pow10(k - 1)

Unsigned(s) == IF Len(s) > 0 /\ s[1] \in {"+", "-"} THEN Tail(s) ELSE s
SignOf(s) == IF Len(s) > 0 /\ s[1] = "-" THEN -1 ELSE 1

IsDecimal(u) ==
    LET dots == {i \in 1..Len(u) : u[i] = "."}
    IN  /\ Cardinality(dots) <= 1
        /\ AllIn(u, Digits \cup {"."})
        /\ \E i \in 1..Len(u) : u[i] \in Digits

\* The float, or None where float raises ValueError.
py_float(s) ==
    LET u == Unsigned(s)
        w == lower(u)
    IN  IF w = <<"n","a","n">> THEN [k |-> "nan", n |-> 0, d |-> 1]
        ELSE IF w = <<"i","n","f">> \/ w = <<"i","n","f","i","n","i","t","y">>
        THEN [k |-> "inf", n |-> SignOf(s), d |-> 1]
        ELSE IF IsDecimal(u)
        THEN LET dots == {i \in 1..Len(u) : u[i] = "."}
                 dot  == IF dots = {} THEN Len(u) + 1 ELSE SetMin(dots)
                 ip   == SubSeq(u, 1, dot - 1)
                 fp   == SubSeq(u, dot + 1, Len(u))
             IN  [k |-> "num", n |-> SignOf(s) * ToNat(ip \o fp), d |-> Pow10(Len(fp))]
        ELSE None

Zero == [k |-> "num", n |-> 0, d |-> 1]

\* The sign of a - b for two floats that are not nan.
FloatCmp(a, b) ==
    IF a.k = "inf" /\ b.k = "inf" THEN a.n - b.n
    ELSE IF a.k = "inf" THEN a.n
    ELSE IF b.k = "inf" THEN 0 - b.n
    ELSE a.n * b.d - b.n * a.d

\* IEEE comparisons: every comparison with nan is false.
FloatLt(a, b) == a.k # "nan" /\ b.k # "nan" /\ FloatCmp(a, b) < 0
FloatGt(a, b) == a.k # "nan" /\ b.k # "nan" /\ FloatCmp(a, b) > 0
FloatEq(a, b) == a.k # "nan" /\ b.k # "nan" /\ FloatCmp(a, b) = 0
FloatLe(a, b) == a.k # "nan" /\ b.k # "nan" /\ FloatCmp(a, b) <= 0

(***************************************************************************)
(* Field checks of validate_and_build_flight.                              *)
(***************************************************************************)
MIN_ID_LEN == 2
MAX_ID_LEN == 8
AIRPORT_LEN == 3
FIELD_COUNT == 6

VALID_AIRPORTS ==
    {<<"L","H","R">>, <<"J","F","K">>, <<"F","R","A">>, <<"R","I","X">>,
     <<"O","S","L">>, <<"H","E","L">>, <<"A","R","N">>, <<"C","D","G">>,
     <<"D","X","B">>, <<"D","O","H">>, <<"S","Y","D">>, <<"A","M","S">>,
     <<"B","R","U">>, <<"L","A","X">>}

\* lines 94-101: the issues the flight_id adds
flight_id_ok(flight_id) ==
    MIN_ID_LEN <= Len(flight_id) /\ Len(flight_id) <= MAX_ID_LEN /\ isalnum(flight_id)
flight_id_issues(flight_id) ==
    IF flight_id_ok(flight_id) THEN <<>>
    ELSE IF Len(flight_id) > MAX_ID_LEN
    THEN <<"flight_id too long (more than 8 characters)">>
    ELSE IF Len(flight_id) < MIN_ID_LEN
    THEN <<"flight_id too short (less than 2 characters)">>
    ELSE <<"invalid flight_id">>

\* lines 104-108: kind is "origin" or "destination"
airport_shape_ok(code) == Len(code) = AIRPORT_LEN /\ isalpha(code) /\ isupper(code)
airport_ok(code) == airport_shape_ok(code) /\ code \in VALID_AIRPORTS
airport_message(kind) ==
    IF kind = "origin" THEN "invalid origin code" ELSE "invalid destination code"
check_airport(code, kind) ==
    IF ~airport_shape_ok(code) THEN <<airport_message(kind)>>
    ELSE IF code \notin VALID_AIRPORTS THEN <<airport_message(kind)>>
    ELSE <<>>

\* lines 71-76: the datetime (or None) and the issues appended
datetime_message(kind) ==
    IF kind = "departure" THEN "invalid departure datetime" ELSE "invalid arrival datetime"
datetime_result(dt, kind) ==
    IF dt = None THEN [dt |-> None, issues |-> <<datetime_message(kind)>>]
    ELSE [dt |-> dt, issues |-> <<>>]
parse_datetime(value, kind) == datetime_result(strptime(value), kind)

\* Mutation: equal timestamps are let through (< for <=).
order_issues_nonstrict(dep_dt, arr_dt) ==
    IF dep_dt # None /\ arr_dt # None /\ DtLess(arr_dt, dep_dt)
    THEN <<"arrival before departure">> ELSE <<>>

\* lines 119-120
order_issues(dep_dt, arr_dt) ==
    IF dep_dt # None /\ arr_dt # None /\ DtLessEq(arr_dt, dep_dt)
    THEN <<"arrival before departure">> ELSE <<>>

\* lines 122-131
price_issues(price) ==
    IF price = None THEN <<"invalid price value">>
    ELSE IF FloatLt(price, Zero) THEN <<"negative price value">>
    ELSE IF FloatEq(price, Zero) THEN <<"non-positive price value">>
    ELSE <<>>

\* Mutation: extra fields are tolerated (>= for ==).
field_count_atleast(parts) == Len(parts) >= FIELD_COUNT

\* lines 87-89
field_count_ok(parts) == Len(parts) = FIELD_COUNT

\* Mutation: the datetime issues are collected but never added (line 117 dropped).
field_issues_no_extend(parts) ==
    flight_id_issues(parts[1])
      \o check_airport(parts[2], "origin")
      \o check_airport(parts[3], "destination")
      \o order_issues(parse_datetime(parts[4], "departure").dt,
                      parse_datetime(parts[5], "arrival").dt)
      \o price_issues(py_float(parts[6]))

\* lines 91-131: the issues of a line of six fields, in the order they are appended
datetime_issues(dep, arr) == dep.issues \o arr.issues \o order_issues(dep.dt, arr.dt)
field_issues(parts) ==
    flight_id_issues(parts[1])
      \o check_airport(parts[2], "origin")
      \o check_airport(parts[3], "destination")
      \o datetime_issues(parse_datetime(parts[4], "departure"),
                         parse_datetime(parts[5], "arrival"))
      \o price_issues(py_float(parts[6]))

\* lines 136-143
build_flight(parts) ==
    [flight_id |-> parts[1], origin |-> parts[2], destination |-> parts[3],
     departure_datetime |-> parts[4], arrival_datetime |-> parts[5],
     price |-> py_float(parts[6])]

\* The error text "Line {lineno}: {line} -> issue, issue, ...", kept as its parts.
error_text(n, line, issues) == [lineno |-> n, line |-> line, issues |-> issues]

\* lines 79-144: (flight or None, error or None)
strip_all(raw_parts) == [i \in 1..Len(raw_parts) |-> strip(raw_parts[i])]
flight_or_error(line, n, parts, issues) ==
    IF issues # <<>>
    THEN [flight |-> None, err |-> error_text(n, line, issues)]
    ELSE [flight |-> build_flight(parts), err |-> None]
validate_parts(line, n, parts) ==
    IF ~field_count_ok(parts)
    THEN [flight |-> None, err |-> error_text(n, line, <<"missing required fields">>)]
    ELSE flight_or_error(line, n, parts, field_issues(parts))
validate_and_build_flight(line, n) == validate_parts(line, n, strip_all(split(line, ",")))

(***************************************************************************)
(* Texts the fields are drawn from.                                        *)
(***************************************************************************)
ID_A == <<"A">>
ID_AB == <<" ","A","B">>
ID_8 == <<"A","B","C","D","E","F","G","H">>
ID_9 == <<"A","B","C","D","E","F","G","H","I">>
ID_BAD == <<"A","-","1">>
O_LHR == <<"L","H","R">>
O_lhr == <<"l","h","r">>
O_XXX == <<"X","X","X">>
O_LH == <<"L","H">>
D_JFK == <<"J","F","K"," ">>
D_XXX == <<"X","X","X">>
T_0800 == <<"2","0","2","4","-","0","3","-","1","0"," ","0","8",":","0","0">>
T_NOPADM == <<"2","0","2","4","-","3","-","1","0"," ","0","8",":","0","0">>
T_NOPADH == <<"2","0","2","4","-","0","3","-","1","0"," ","8",":","0","0">>
T_SLASH == <<"2","0","2","4","/","0","3","/","1","0"," ","0","8",":","0","0">>
T_FEB30 == <<"2","0","2","4","-","0","2","-","3","0"," ","0","8",":","0","0">>
T_0700 == <<"2","0","2","4","-","0","3","-","1","0"," ","0","7",":","0","0">>
T_0900 == <<"2","0","2","4","-","0","3","-","1","0"," ","0","9",":","0","0">>
T_MONTH13 == <<"2","0","2","4","-","1","3","-","1","0"," ","0","9",":","0","0">>
P_0 == <<"0">>
P_NEG == <<"-","5",".","5","0">>
P_12_5 == <<"1","2",".","5">>
P_ABC == <<"a","b","c">>
P_NAN == <<"n","a","n">>
P_INF == <<"i","n","f">>

IdTexts ==
    {ID_A, ID_AB, ID_8, ID_9, ID_BAD}
OriginTexts ==
    {O_LHR, O_lhr, O_XXX, O_LH}
DestinationTexts ==
    {D_JFK, D_XXX}
DepartureTexts ==
    {T_0800, T_NOPADM, T_NOPADH, T_SLASH, T_FEB30}
ArrivalTexts ==
    {T_0700, T_0800, T_0900, T_MONTH13}
PriceTexts ==
    {P_0, P_NEG, P_12_5, P_ABC, P_NAN, P_INF}

\* Lines of six fields, of five (the price missing) and of seven (an extra field).
Lines6 ==
    {join(<<a, b, c, d, e, f>>, ",") :
        a \in IdTexts, b \in OriginTexts, c \in DestinationTexts,
        d \in DepartureTexts, e \in ArrivalTexts, f \in PriceTexts}
Lines5 ==
    {join(<<a, b, c, d, e>>, ",") :
        a \in IdTexts, b \in OriginTexts, c \in DestinationTexts,
        d \in DepartureTexts, e \in {T_0900}}
Lines7 ==
    {join(<<a, b, D_JFK, d, T_0900, f, f>>, ",") :
        a \in IdTexts, b \in OriginTexts, d \in DepartureTexts, f \in PriceTexts}
ValidateLines == Lines6 \cup Lines5 \cup Lines7

MaxLines == 3

(***************************************************************************)
(* One call of validate_and_build_flight on an enumerated line.            *)
(***************************************************************************)
Idle ==
    /\ args = None
    /\ lineno = 0
    /\ consumed = <<>>
    /\ nfiles = 0
    /\ flights = <<>>
    /\ errors = <<>>
    /\ queries = <<>>
    /\ responses = <<>>
    /\ db_file = Untouched
    /\ errors_file = Untouched
    /\ response_file = Untouched

ValidateInit ==
    /\ pc = "validate"
    /\ vin \in [line : ValidateLines, lineno : {1, MaxLines}]
    /\ vout = None
    /\ Idle

CallValidate ==
    /\ pc = "validate"
    /\ vout' = validate_and_build_flight(vin.line, vin.lineno)
    /\ pc' = "validated"
    /\ UNCHANGED <<args, vin, lineno, consumed, nfiles, flights, errors,
                   queries, responses, db_file, errors_file, response_file>>

ValidateNext == CallValidate

SpecValidate == ValidateInit /\ [][ValidateNext]_vars

(***************************************************************************)
(* Properties of validate_and_build_flight.                                *)
(***************************************************************************)
Fields(line) == LET sp == split(line, ",") IN [i \in 1..Len(sp) |-> strip(sp[i])]
Validated == pc = "validated"
SixFields == Len(Fields(vin.line)) = FIELD_COUNT
IssuesOf(out) == IF out.err = None THEN <<>> ELSE out.err.issues
Has(issues, msg) == \E i \in 1..Len(issues) : issues[i] = msg
HasAny(issues, msgs) == \E i \in 1..Len(issues) : issues[i] \in msgs

\* What each field validator accepts.
PricePasses(t) == py_float(t) # None /\ ~FloatLe(py_float(t), Zero)
TimestampPasses(t) == strptime(t) # None
ArrivalAfterDeparture(dep, arr) ==
    strptime(dep) # None /\ strptime(arr) # None /\ DtLess(strptime(dep), strptime(arr))
AllFieldsPass(p) ==
    /\ flight_id_ok(p[1])
    /\ airport_ok(p[2])
    /\ airport_ok(p[3])
    /\ TimestampPasses(p[4])
    /\ TimestampPasses(p[5])
    /\ PricePasses(p[6])

FlightIdIssues ==
    {"flight_id too long (more than 8 characters)",
     "flight_id too short (less than 2 characters)", "invalid flight_id"}
PriceIssues == {"invalid price value", "negative price value", "non-positive price value"}

\* C1: a line of six fields yields a Record and no error exactly when every
\* field passes its validator and the arrival is strictly later than the
\* departure; otherwise it yields no Record and an error with at least one issue.
C1_RecordIffValid ==
    (Validated /\ SixFields) =>
        LET p == Fields(vin.line)
            good == AllFieldsPass(p) /\ ArrivalAfterDeparture(p[4], p[5])
        IN  /\ good <=> (vout.flight # None /\ vout.err = None)
            /\ ~good => (vout.flight = None /\ vout.err # None /\ vout.err.issues # <<>>)

\* A Record was returned for a line whose arrival is after its departure.
C1_Witness ==
    /\ Validated /\ SixFields
    /\ vout.flight # None
    /\ vout.flight.departure_datetime = T_0800
    /\ vout.flight.arrival_datetime = T_0900

\* C2: every Record returned has a price for which price > 0 holds.
C2_PricePositive ==
    (Validated /\ vout.flight # None) => FloatGt(vout.flight.price, Zero)

\* C3: a timestamp without its zero padding is refused with an
\* "invalid departure datetime" issue and the line yields no Record, while the
\* zero-padded timestamp parses.
C3_PaddingRequired ==
    /\ strptime(T_0800) # None
    /\ (Validated /\ SixFields /\ Fields(vin.line)[4] \in {T_NOPADM, T_NOPADH}) =>
           (vout.flight = None /\ Has(IssuesOf(vout), "invalid departure datetime"))

\* C4: a line that does not split into exactly six fields yields no Record and
\* an error holding the one issue "missing required fields".
C4_FieldCount ==
    (Validated /\ ~SixFields) =>
        /\ vout.flight = None
        /\ vout.err # None
        /\ vout.err.issues = <<"missing required fields">>

\* A line of seven fields, with a malformed flight_id and origin among them, was validated.
C4_Witness ==
    /\ Validated
    /\ Len(Fields(vin.line)) = FIELD_COUNT + 1
    /\ ~flight_id_ok(Fields(vin.line)[1])
    /\ ~airport_ok(Fields(vin.line)[2])
    /\ vout.err # None

\* C5: the error of a line of six fields holds an issue for every field that
\* fails its validator, and "arrival before departure" exactly when both
\* timestamps parsed and the arrival is not strictly after the departure; a
\* line with any issue yields one error and no Record.
C5_AllIssuesReported ==
    (Validated /\ SixFields) =>
        LET p == Fields(vin.line)
            iss == IssuesOf(vout)
        IN  /\ ~flight_id_ok(p[1]) => HasAny(iss, FlightIdIssues)
            /\ ~airport_ok(p[2]) => Has(iss, "invalid origin code")
            /\ ~airport_ok(p[3]) => Has(iss, "invalid destination code")
            /\ ~TimestampPasses(p[4]) => Has(iss, "invalid departure datetime")
            /\ ~TimestampPasses(p[5]) => Has(iss, "invalid arrival datetime")
            /\ ~PricePasses(p[6]) => HasAny(iss, PriceIssues)
            /\ Has(iss, "arrival before departure") <=>
                   (TimestampPasses(p[4]) /\ TimestampPasses(p[5])
                      /\ ~DtLess(strptime(p[4]), strptime(p[5])))
            /\ iss # <<>> => vout.flight = None

\* Several fields fail at once and the timestamps are out of order.
C5_Witness ==
    /\ Validated /\ SixFields
    /\ LET p == Fields(vin.line)
       IN  /\ ~flight_id_ok(p[1]) /\ ~airport_ok(p[2]) /\ ~airport_ok(p[3])
           /\ ~PricePasses(p[6])
           /\ TimestampPasses(p[4]) /\ TimestampPasses(p[5])
           /\ ~DtLess(strptime(p[4]), strptime(p[5]))
    /\ Len(IssuesOf(vout)) = 5

(***************************************************************************)
(* parse_csv_file: one source, read line by line.                          *)
(***************************************************************************)
HEADER_TEXT ==
    <<"f","l","i","g","h","t","_","i","d",",","o","r","i","g","i","n",",","d","e","s","t","i","n","a","t","i","o","n",",","d","e","p","a","r","t","u","r","e","_","d","a","t","e","t","i","m","e",",","a","r","r","i","v","a","l","_","d","a","t","e","t","i","m","e",",","p","r","i","c","e">>
RAW_OK ==
    <<"A","B","1","2",",","L","H","R",",","J","F","K",",","2","0","2","4","-","0","3","-","1","0"," ","0","8",":","0","0",",","2","0","2","4","-","0","3","-","1","0"," ","0","9",":","0","0",",","1","2",".","5","\n">>
RAW_NAN ==
    <<"E","F","5","6",",","L","H","R",",","J","F","K",",","2","0","2","4","-","0","3","-","1","0"," ","0","7",":","0","0",",","2","0","2","4","-","0","3","-","1","0"," ","0","8",":","3","0",",","n","a","n">>
RAW_RIX ==
    <<"C","D","3","4",",","R","I","X",",","O","S","L",",","2","0","2","4","-","0","3","-","1","1"," ","1","0",":","0","0",",","2","0","2","4","-","0","3","-","1","1"," ","1","2",":","0","0",",","9","9","\n">>
RAW_SHORT_ID ==
    <<"A",",","L","H","R",",","J","F","K",",","2","0","2","4","-","0","3","-","1","0"," ","0","8",":","0","0",",","2","0","2","4","-","0","3","-","1","0"," ","0","9",":","0","0",",","1","2",".","5","\n">>
RAW_FEW ==
    <<"A","B","1","2",",","L","H","R","\n">>
RAW_BLANK ==
    <<"\n">>
RAW_SPACES ==
    <<" "," "," ","\n">>
RAW_HEADER ==
    <<"F","l","i","g","h","t","_","I","D",",","O","r","i","g","i","n",",","D","e","s","t","i","n","a","t","i","o","n",",","D","e","p","a","r","t","u","r","e","_","D","a","t","e","t","i","m","e",",","A","r","r","i","v","a","l","_","D","a","t","e","t","i","m","e",",","P","r","i","c","e","\n">>
RAW_COMMENT ==
    <<" "," ","#"," ","n","o","t","e","\n">>
IngestLines ==
    {RAW_OK, RAW_NAN, RAW_SHORT_ID, RAW_FEW, RAW_BLANK, RAW_SPACES, RAW_HEADER, RAW_COMMENT}

\* str.rstrip("\n")
RECURSIVE rstrip_newline(_)
rstrip_newline(s) ==
    IF s # <<>> /\ s[Len(s)] = "\n" THEN rstrip_newline(SubSeq(s, 1, Len(s) - 1)) ELSE s

COMMENT_NOTE == "comment line, ignored for data parsing"

\* Mutation: the header is skipped wherever it stands, not only on line 1.
is_header_anywhere(n, stripped) == startswith(lower(stripped), HEADER_TEXT)

\* lines 162-164
is_header(n, stripped) == n = 1 /\ startswith(lower(stripped), HEADER_TEXT)

\* lines 175-179: the result of the validator goes to one of the two lists
keep_result(res, fl, er) ==
    IF res.err # None THEN [flights |-> fl, errors |-> Append(er, res.err)]
    ELSE IF res.flight # None THEN [flights |-> Append(fl, res.flight), errors |-> er]
    ELSE [flights |-> fl, errors |-> er]

\* Mutation: a comment line is dropped like a blank one.
dispatch_line_silent_comment(line, stripped, n, fl, er) ==
    IF stripped = <<>> THEN [flights |-> fl, errors |-> er]
    ELSE IF is_header(n, stripped) THEN [flights |-> fl, errors |-> er]
    ELSE IF startswith(stripped, <<"#">>) THEN [flights |-> fl, errors |-> er]
    ELSE keep_result(validate_and_build_flight(line, n), fl, er)

\* lines 157-179: blank, header, comment or data line
dispatch_line(line, stripped, n, fl, er) ==
    IF stripped = <<>> THEN [flights |-> fl, errors |-> er]
    ELSE IF is_header(n, stripped) THEN [flights |-> fl, errors |-> er]
    ELSE IF startswith(stripped, <<"#">>)
    THEN [flights |-> fl,
          errors |-> Append(er, error_text(n, stripped, <<COMMENT_NOTE>>))]
    ELSE keep_result(validate_and_build_flight(line, n), fl, er)

\* lines 153-179: the body of the loop, for the raw line numbered n
parse_csv_line(raw, n, fl, er) ==
    dispatch_line(rstrip_newline(raw), strip(rstrip_newline(raw)), n, fl, er)

\* parse_csv_file, lines 152-153: the next line of the open source, one of
\* lines, is read
ReadLine(lines) ==
    /\ pc = "parse"
    /\ lineno < MaxLines
    /\ \E raw \in lines :
          /\ lineno' = lineno + 1
          /\ consumed' = Append(consumed, raw)
          /\ LET out == parse_csv_line(raw, lineno + 1, flights, errors)
             IN  flights' = out.flights /\ errors' = out.errors
    /\ UNCHANGED <<pc, args, vin, vout, nfiles, queries, responses,
                   db_file, errors_file, response_file>>

\* parse_csv_file returns at the end of the source; main (lines 307-315) goes on
\* to the next source, or to saving.
CloseFile ==
    /\ pc = "parse"
    /\ IF nfiles > 1
       THEN /\ nfiles' = nfiles - 1
            /\ lineno' = 0
            /\ consumed' = <<>>
            /\ pc' = "parse"
       ELSE /\ nfiles' = 0
            /\ pc' = "save_db"
            /\ UNCHANGED <<lineno, consumed>>
    /\ UNCHANGED <<args, vin, vout, flights, errors, queries, responses,
                   db_file, errors_file, response_file>>

IngestInit ==
    /\ pc = "parse"
    /\ args = None
    /\ vin = None
    /\ vout = None
    /\ lineno = 0
    /\ consumed = <<>>
    /\ nfiles = 1
    /\ flights = <<>>
    /\ errors = <<>>
    /\ queries = <<>>
    /\ responses = <<>>
    /\ db_file = Untouched
    /\ errors_file = Untouched
    /\ response_file = Untouched

IngestNext ==
    \/ ReadLine(IngestLines)
    \/ CloseFile

SpecIngest == IngestInit /\ [][IngestNext]_vars

(***************************************************************************)
(* Properties of parse_csv_file.                                           *)
(***************************************************************************)
IsBlank(raw) == AllIn(raw, Whitespace)
IsHeader(raw) == startswith(lower(strip(raw)), HEADER_TEXT)
IsComment(raw) == strip(raw) # <<>> /\ strip(raw)[1] = "#"
KindOf(i) ==
    IF IsBlank(consumed[i]) \/ (i = 1 /\ IsHeader(consumed[i])) THEN "skip"
    ELSE IF IsComment(consumed[i]) THEN "comment"
    ELSE "data"
ErrorsOfLine(i) == {k \in 1..Len(errors) : errors[k].lineno = i}
RecordOfLine(i) == validate_and_build_flight(rstrip_newline(consumed[i]), i).flight
RECURSIVE RecordsUpTo(_)
RecordsUpTo(i) ==
    IF i = 0 THEN <<>>
    ELSE LET r == RecordOfLine(i)
         IN  IF KindOf(i) = "data" /\ r # None
             THEN Append(RecordsUpTo(i - 1), r)
             ELSE RecordsUpTo(i - 1)

\* C6: after any number of lines of a source, a blank line and a header on
\* line 1 have added nothing; a comment line has added exactly one Diagnostic
\* (the comment note) and no Record; every other line has added exactly one
\* entry, a Record or a Diagnostic; Records plus Diagnostics number the lines
\* that are neither blank nor the line-1 header, and both are in line order.
C6_OneEntryPerLine ==
    (pc \in {"parse", "save_db"} /\ args = None) =>
        /\ Len(flights) + Len(errors)
              = Cardinality({i \in 1..Len(consumed) : KindOf(i) # "skip"})
        /\ \A i \in 1..Len(consumed) :
              /\ KindOf(i) = "skip" => ErrorsOfLine(i) = {}
              /\ KindOf(i) = "comment" =>
                    /\ Cardinality(ErrorsOfLine(i)) = 1
                    /\ \A k \in ErrorsOfLine(i) : errors[k].issues = <<COMMENT_NOTE>>
              /\ KindOf(i) = "data" =>
                    Cardinality(ErrorsOfLine(i)) + (IF RecordOfLine(i) # None THEN 1 ELSE 0) = 1
        /\ flights = RecordsUpTo(Len(consumed))
        /\ \A k \in 1..Len(errors) : errors[k].lineno \in 1..Len(consumed)
        /\ \A j, k \in 1..Len(errors) : j < k => errors[j].lineno < errors[k].lineno

\* A source of a valid line, a line with a too-short flight_id and a blank
\* line has been read to its end: one Record and one Diagnostic.
C6_Witness ==
    /\ pc = "save_db" /\ args = None
    /\ consumed = <<RAW_OK, RAW_SHORT_ID, RAW_BLANK>>
    /\ Len(flights) = 1
    /\ Len(errors) = 1

(***************************************************************************)
(* Queries.  A query is a JSON object; each key the program looks at is    *)
(* either absent or present with a value.                                  *)
(***************************************************************************)
Absent == [has |-> FALSE]
Present(v) == [has |-> TRUE, v |-> v]
In(query, field) == query[field].has

EmptyQuery ==
    [flight_id |-> Absent, origin |-> Absent, destination |-> Absent,
     departure_datetime |-> Absent, arrival_datetime |-> Absent,
     price |-> Absent, airline |-> Absent]

\* lines 222-225: strptime on a bound of the query raises ValueError
filter_raises(query) ==
    \/ In(query, "departure_datetime") /\ strptime(query.departure_datetime.v) = None
    \/ In(query, "arrival_datetime") /\ strptime(query.arrival_datetime.v) = None

\* Mutation: each check overwrites the verdict of the checks before it.
flight_passes_last_check_wins(flight, query) ==
    IF In(query, "price") THEN ~FloatGt(flight.price, query.price.v)
    ELSE IF In(query, "arrival_datetime")
    THEN ~DtLess(strptime(query.arrival_datetime.v), strptime(flight.arrival_datetime))
    ELSE IF In(query, "departure_datetime")
    THEN ~DtLess(strptime(flight.departure_datetime), strptime(query.departure_datetime.v))
    ELSE \A field \in {"flight_id", "origin", "destination"} :
            In(query, field) => flight[field] = query[field].v

\* lines 228-254: the flight reaches matches.append
flight_passes(flight, query) ==
    /\ \A field \in {"flight_id", "origin", "destination"} :
          ~(In(query, field) /\ flight[field] # query[field].v)
    /\ In(query, "departure_datetime") =>
          ~DtLess(strptime(flight.departure_datetime), strptime(query.departure_datetime.v))
    /\ In(query, "arrival_datetime") =>
          ~DtLess(strptime(query.arrival_datetime.v), strptime(flight.arrival_datetime))
    /\ In(query, "price") => ~FloatGt(flight.price, query.price.v)

\* lines 214-258: one scan of the flights, in order
RECURSIVE filter_flights(_, _)
filter_flights(fl, query) ==
    IF fl = <<>> THEN <<>>
    ELSE IF flight_passes(Head(fl), query)
    THEN <<Head(fl)>> \o filter_flights(Tail(fl), query)
    ELSE filter_flights(Tail(fl), query)

\* Mutation: one matches list is shared by all the queries of the batch.
append_response_shared_matches(resps, fl, q) ==
    Append(resps,
           [query |-> q,
            matches |-> (IF resps = <<>> THEN <<>> ELSE resps[Len(resps)].matches)
                           \o filter_flights(fl, q)])

\* lines 267-274
append_response(resps, fl, q) ==
    Append(resps, [query |-> q, matches |-> filter_flights(fl, q)])

\* run_queries_and_save, lines 267-274: the next query of the batch
RunQuery ==
    /\ pc = "query"
    /\ Len(responses) < Len(queries)
    /\ LET q == queries[Len(responses) + 1]
       IN  IF filter_raises(q)
           THEN pc' = "crashed" /\ UNCHANGED responses
           ELSE pc' = pc /\ responses' = append_response(responses, flights, q)
    /\ UNCHANGED <<args, vin, vout, lineno, consumed, nfiles, flights, errors,
                   queries, db_file, errors_file, response_file>>

\* run_queries_and_save, lines 276-286: the responses are written
WriteResponse ==
    /\ pc = "query"
    /\ Len(responses) = Len(queries)
    /\ response_file' = Written(responses)
    /\ pc' = "done"
    /\ UNCHANGED <<args, vin, vout, lineno, consumed, nfiles, flights, errors,
                   queries, responses, db_file, errors_file>>

(***************************************************************************)
(* A batch of queries run on a loaded database.                            *)
(***************************************************************************)
MaxFlights == 2
MaxQueries == 2

BoundedSeqs(S, n) == UNION {[1..k -> S] : k \in 0..n}

\* Records the validator returns for lines of a source.
FlightSamples ==
    {validate_and_build_flight(rstrip_newline(raw), 1).flight : raw \in {RAW_OK, RAW_NAN, RAW_RIX}}

Q_ID == <<"A","B","1","2">>
Q_ORIGIN == <<"L","H","R">>
Q_DESTINATION == <<"J","F","K">>
Q_DEPARTURE == T_0800
Q_ARRIVAL == T_0900
Q_BAD_TIME == <<"t","o","d","a","y">>
Q_PRICE == [k |-> "num", n |-> 125, d |-> 10]
Q_AIRLINE == <<"X","X">>

QuerySamples ==
    {EmptyQuery,
     [EmptyQuery EXCEPT !.origin = Present(Q_ORIGIN)],
     [EmptyQuery EXCEPT !.departure_datetime = Present(Q_DEPARTURE)],
     [EmptyQuery EXCEPT !.price = Present(Q_PRICE)],
     [EmptyQuery EXCEPT !.airline = Present(Q_AIRLINE)],
     [EmptyQuery EXCEPT !.origin = Present(Q_ORIGIN), !.price = Present(Q_PRICE)],
     [EmptyQuery EXCEPT !.departure_datetime = Present(Q_DEPARTURE),
                        !.arrival_datetime = Present(Q_ARRIVAL)],
     [EmptyQuery EXCEPT !.flight_id = Present(Q_ID), !.origin = Present(Q_ORIGIN),
                        !.destination = Present(Q_DESTINATION)],
     [EmptyQuery EXCEPT !.origin = Present(Q_ORIGIN), !.destination = Present(Q_DESTINATION),
                        !.departure_datetime = Present(Q_DEPARTURE),
                        !.arrival_datetime = Present(Q_ARRIVAL), !.price = Present(Q_PRICE)],
     [EmptyQuery EXCEPT !.departure_datetime = Present(Q_BAD_TIME)]}

QueryInit ==
    /\ pc = "query"
    /\ args = None
    /\ vin = None
    /\ vout = None
    /\ lineno = 0
    /\ consumed = <<>>
    /\ nfiles = 0
    /\ flights \in BoundedSeqs(FlightSamples, MaxFlights)
    /\ errors = <<>>
    /\ queries \in BoundedSeqs(QuerySamples, MaxQueries)
    /\ responses = <<>>
    /\ db_file = Untouched
    /\ errors_file = Untouched
    /\ response_file = Untouched

QueryNext == RunQuery \/ WriteResponse

SpecQuery == QueryInit /\ [][QueryNext]_vars

(***************************************************************************)
(* Properties of filter_flights and run_queries_and_save.                  *)
(***************************************************************************)
QueryFields ==
    {"flight_id", "origin", "destination", "departure_datetime", "arrival_datetime",
     "price", "airline"}

\* The Record satisfies every filter present in the Query.
SatisfiesQuery(f, q) ==
    /\ In(q, "flight_id") => f.flight_id = q.flight_id.v
    /\ In(q, "origin") => f.origin = q.origin.v
    /\ In(q, "destination") => f.destination = q.destination.v
    /\ In(q, "departure_datetime") =>
          DtLessEq(strptime(q.departure_datetime.v), strptime(f.departure_datetime))
    /\ In(q, "arrival_datetime") =>
          DtLessEq(strptime(f.arrival_datetime), strptime(q.arrival_datetime.v))
    /\ In(q, "price") => FloatLe(f.price, q.price.v)

RECURSIVE IsSubseq(_, _)
IsSubseq(a, b) ==
    IF a = <<>> THEN TRUE
    ELSE IF b = <<>> THEN FALSE
    ELSE IF Head(a) = Head(b) THEN IsSubseq(Tail(a), Tail(b))
    ELSE IsSubseq(a, Tail(b))

\* q2 is q with one further key.
AddsOneKey(q, q2) ==
    \E k \in QueryFields :
        /\ ~In(q, k) /\ In(q2, k)
        /\ \A f \in QueryFields \ {k} : q2[f] = q[f]

\* C7: the matches of every query run are exactly the Records, in their
\* original order, that satisfy every filter present in the query: equality on
\* flight_id, origin and destination, departure >= bound, arrival <= bound,
\* price <= bound.
C7_ExactMatches ==
    \A i \in 1..Len(responses) :
        responses[i].matches
            = SelectSeq(flights, LAMBDA f : SatisfiesQuery(f, responses[i].query))

\* C8: in one batch, the matches of a query that adds one key to another
\* query are a subsequence of that query's matches, and no more numerous.
C8_Monotonic ==
    \A i, j \in 1..Len(responses) :
        AddsOneKey(responses[i].query, responses[j].query) =>
            /\ IsSubseq(responses[j].matches, responses[i].matches)
            /\ Len(responses[j].matches) <= Len(responses[i].matches)

\* A query and the same query with one more key were both run, and the added
\* key removed a match.
C8_Witness ==
    \E i, j \in 1..Len(responses) :
        /\ AddsOneKey(responses[i].query, responses[j].query)
        /\ Len(responses[j].matches) < Len(responses[i].matches)
        /\ responses[j].matches # <<>>

\* C9: the responses are as many as the queries run, the i-th response holds
\* the i-th query unchanged and the matches of that query alone on the whole
\* flight list; when the batch is done every query has its response, and that
\* is what is written.
C9_BatchPairs ==
    /\ Len(responses) <= Len(queries)
    /\ \A i \in 1..Len(responses) :
          /\ responses[i].query = queries[i]
          /\ responses[i].matches = filter_flights(flights, queries[i])
    /\ pc = "done" => (Len(responses) = Len(queries) /\ response_file = Written(responses))

\* Two different queries of one batch matched the same Record, with different matches overall.
C9_Witness ==
    /\ pc = "done"
    /\ Len(responses) = 2
    /\ responses[1].query # responses[2].query
    /\ responses[1].matches # responses[2].matches
    /\ \E a \in 1..Len(responses[1].matches), b \in 1..Len(responses[2].matches) :
          responses[1].matches[a] = responses[2].matches[b]

(***************************************************************************)
(* main: the command line, the CSV mode, the database mode, the queries.   *)
(***************************************************************************)
MaxFiles == 2
MaxEntries == 2

\* -i, -d, -j, -q given or not (lines 44-66)
ArgSets == [input : BOOLEAN, dir : BOOLEAN, json_db : BOOLEAN, query : BOOLEAN]

\* line 293
has_csv_input(a) == a.input \/ a.dir

\* Mutation: only the missing-input check is made (lines 298-299 dropped).
usage_error_only_missing(a) ==
    \/ a.input /\ a.dir
    \/ ~has_csv_input(a) /\ ~a.json_db

\* lines 44-50 (the exclusive group) and 295-299: parser.error
usage_error(a) ==
    \/ a.input /\ a.dir
    \/ ~has_csv_input(a) /\ ~a.json_db
    \/ a.json_db /\ has_csv_input(a)

\* Where main goes after the CSV mode (line 320), and after the database mode (line 325).
after_db(a) == IF a.query THEN "load_queries" ELSE "done"
after_csv(a) == IF a.json_db THEN "load_db" ELSE after_db(a)

MainLines == {RAW_OK, RAW_NAN, RAW_COMMENT}
MainFlights ==
    {validate_and_build_flight(rstrip_newline(raw), 1).flight : raw \in {RAW_OK, RAW_NAN}}
MainQueries ==
    {[EmptyQuery EXCEPT !.price = Present(Q_PRICE)],
     [EmptyQuery EXCEPT !.origin = Present(Q_ORIGIN)],
     [EmptyQuery EXCEPT !.departure_datetime = Present(Q_BAD_TIME)]}

\* What a JSON file holds: text that is not JSON, a scalar, one object, or an array.
JsonDbFiles ==
    {[kind |-> "malformed"], [kind |-> "object"]}
        \cup {[kind |-> "array", data |-> d] : d \in BoundedSeqs(MainFlights, MaxFlights)}
QueryFiles ==
    {[kind |-> "malformed"], [kind |-> "scalar"]}
        \cup {[kind |-> "object", data |-> q] : q \in MainQueries}
        \cup {[kind |-> "array", data |-> d] : d \in BoundedSeqs(MainQueries, MaxQueries)}

\* lines 195-200: the list, unless json.load or the type check raises
load_json_db(file) ==
    IF file.kind = "array" THEN [raised |-> FALSE, data |-> file.data] ELSE [raised |-> TRUE]

\* lines 203-211: the list of queries, unless json.load or the type check raises
load_queries(file) ==
    IF file.kind = "object" THEN [raised |-> FALSE, data |-> <<file.data>>]
    ELSE IF file.kind = "array" THEN [raised |-> FALSE, data |-> file.data]
    ELSE [raised |-> TRUE]

MainInit ==
    /\ pc = "start"
    /\ args = None
    /\ vin = None
    /\ vout = None
    /\ lineno = 0
    /\ consumed = <<>>
    /\ nfiles = 0
    /\ flights = <<>>
    /\ errors = <<>>
    /\ queries = <<>>
    /\ responses = <<>>
    /\ db_file = Untouched
    /\ errors_file = Untouched
    /\ response_file = Untouched

\* lines 290-301
ParseArgs ==
    /\ pc = "start"
    /\ \E a \in ArgSets :
          /\ args' = a
          /\ pc' = IF usage_error(a) THEN "usage_error"
                   ELSE IF has_csv_input(a) THEN "open"
                   ELSE after_csv(a)
    /\ UNCHANGED <<vin, vout, lineno, consumed, nfiles, flights, errors,
                   queries, responses, db_file, errors_file, response_file>>

\* lines 304-313: the one input file is opened (it may be missing), or the
\* .csv files of the folder are listed
OpenSources ==
    /\ pc = "open"
    /\ \/ /\ args.input
          /\ \E found \in BOOLEAN :
                IF found THEN nfiles' = 1 /\ pc' = "parse" ELSE nfiles' = 0 /\ pc' = "crashed"
       \/ /\ args.dir /\ ~args.input
          /\ \E n \in 0..MaxFiles :
                /\ nfiles' = n
                /\ pc' = IF n = 0 THEN "save_db" ELSE "parse"
    /\ UNCHANGED <<args, vin, vout, lineno, consumed, flights, errors,
                   queries, responses, db_file, errors_file, response_file>>

\* lines 315-316 and 182-185
SaveDb ==
    /\ pc = "save_db"
    /\ args # None
    /\ db_file' = Written(flights)
    /\ pc' = "save_errors"
    /\ UNCHANGED <<args, vin, vout, lineno, consumed, nfiles, flights, errors,
                   queries, responses, errors_file, response_file>>

\* lines 317 and 188-192
SaveErrors ==
    /\ pc = "save_errors"
    /\ errors_file' = Written(errors)
    /\ pc' = after_csv(args)
    /\ UNCHANGED <<args, vin, vout, lineno, consumed, nfiles, flights, errors,
                   queries, responses, db_file, response_file>>

\* lines 320-322
LoadJsonDb ==
    /\ pc = "load_db"
    /\ \E file \in JsonDbFiles :
          IF load_json_db(file).raised
          THEN pc' = "crashed" /\ UNCHANGED flights
          ELSE pc' = after_db(args) /\ flights' = load_json_db(file).data
    /\ UNCHANGED <<args, vin, vout, lineno, consumed, nfiles, errors,
                   queries, responses, db_file, errors_file, response_file>>

\* lines 325-326
LoadQueries ==
    /\ pc = "load_queries"
    /\ \E file \in QueryFiles :
          IF load_queries(file).raised
          THEN pc' = "crashed" /\ UNCHANGED queries
          ELSE pc' = "query" /\ queries' = load_queries(file).data
    /\ UNCHANGED <<args, vin, vout, lineno, consumed, nfiles, flights, errors,
                   responses, db_file, errors_file, response_file>>

Next ==
    \/ ParseArgs
    \/ OpenSources
    \/ Len(flights) + Len(errors) < MaxEntries /\ ReadLine(MainLines)
    \/ CloseFile
    \/ SaveDb
    \/ SaveErrors
    \/ LoadJsonDb
    \/ LoadQueries
    \/ RunQuery
    \/ WriteResponse

Spec == MainInit /\ [][Next]_vars

(***************************************************************************)
(* Properties of main.                                                     *)
(***************************************************************************)
CsvRun == args # None /\ has_csv_input(args) /\ ~args.json_db
NothingDone ==
    /\ lineno = 0 /\ consumed = <<>> /\ flights = <<>> /\ errors = <<>>
    /\ queries = <<>> /\ responses = <<>>
    /\ db_file = Untouched /\ errors_file = Untouched /\ response_file = Untouched

\* C10: in a CSV run both the database file and the errors file hold their
\* final content while the query file is loaded and the queries are run; a run
\* that fails there leaves both as written and writes no response file; and a
\* command line with both a database load and a CSV input, or with neither,
\* ends in a usage error with nothing parsed and nothing written.
C10_SavedBeforeQueries ==
    /\ (CsvRun /\ pc \in {"load_queries", "query"}) =>
          (db_file = Written(flights) /\ errors_file = Written(errors)
             /\ response_file = Untouched)
    /\ (CsvRun /\ pc = "crashed" /\ db_file.written) =>
          (db_file = Written(flights) /\ errors_file = Written(errors)
             /\ response_file = Untouched)
    /\ (CsvRun /\ pc = "done" /\ args.query) =>
          (db_file = Written(flights) /\ errors_file = Written(errors)
             /\ response_file = Written(responses))
    /\ (args # None /\ ((args.json_db /\ has_csv_input(args))
                           \/ (~args.json_db /\ ~has_csv_input(args)))) =>
          (pc = "usage_error" /\ NothingDone)

\* A CSV run saved a Record and a Diagnostic, then failed while running its queries.
C10_Witness ==
    /\ CsvRun /\ pc = "crashed"
    /\ queries # <<>>
    /\ db_file.written /\ Len(db_file.content) = 1
    /\ errors_file.written /\ Len(errors_file.content) = 1
    /\ response_file = Untouched

====
